---- MODULE Spec2Model ----
(***************************************************************************)
(* Model of credit_score_generator.py: the wallet feature aggregator       *)
(* (engineer_wallet_features) and the one-step scoring function            *)
(* (generate_wallet_scores_from_json).                                     *)
(*                                                                         *)
(* A DataFrame of transactions is a list of column labels (duplicates are  *)
(* possible after a rename) and a list of rows.  A feature table is an     *)
(* index (the wallets), a list of column labels and one list of cells per  *)
(* wallet.  A cell is an exact number                                      *)
(*      (num / (den + eps * 1e-9)) ^ (1 / (1 + root))                       *)
(* so that ratios with the epsilon denominator and sample standard         *)
(* deviations are kept exactly instead of as floats.                       *)
(***************************************************************************)
EXTENDS Integers, Sequences, FiniteSets, TLC

VARIABLES
    inputOk,     \* whether open()/json.load()/pd.DataFrame() succeed (l.178-184)
    columns,     \* identity column labels of transactions_df_input
    batch,       \* rows of transactions_df_input
    artifacts,   \* the content of models_dir
    pc,          \* "start" before the call, "done" after it
    stage,       \* the statement at which the call ended
    features,    \* what engineer_wallet_features returned or raised
    aligned,     \* wallet_features_input_df after step 4 (alignment)
    cluster_labels,  \* cluster_labels_input, what kmeans_model.predict gave
    result       \* what the call returned or raised

vars == <<inputOk, columns, batch, artifacts, pc, stage, features, aligned,
          cluster_labels, result>>

-----------------------------------------------------------------------------
(* Bounds of the model *)

MaxTx == 2          \* transactions in a batch
MaxAmount == 2      \* largest parsable amount
MaxCluster == 2     \* largest cluster id kmeans_model.predict may give

(* Program constants *)

MsPerDay == 86400000      \* unit='ms' and .dt.date
MsPerHour == 3600000      \* total_seconds() / 3600
NeutralScore == 500

WalletOrder == <<"0xA", "0xB">>     \* the wallet addresses, in string order
Wallets == {WalletOrder[i] : i \in 1..Len(WalletOrder)}
TrackedActions == <<"deposit", "borrow", "repay", "redeemunderlying", "liquidationcall">>
Actions == {TrackedActions[i] : i \in 1..Len(TrackedActions)} \cup {"other"}
IdentityLabels == <<"walletaddress", "userWallet", "from">>

-----------------------------------------------------------------------------
(* Sequences and exact numbers *)

Range(s) == {s[i] : i \in 1..Len(s)}

Has(s, x) == \E i \in 1..Len(s) : s[i] = x

Occurrences(s, x) == Cardinality({i \in 1..Len(s) : s[i] = x})

IndexOf(s, x) == CHOOSE i \in 1..Len(s) : s[i] = x

RECURSIVE SumSeq(_)
SumSeq(s) == IF s = <<>> THEN 0 ELSE Head(s) + SumSeq(Tail(s))

RECURSIVE SelectIdx(_, _, _)
(* the subsequence of s at the positions i with Keep(i), from position k on *)
SelectIdx(s, Keep(_), k) ==
    IF k > Len(s) THEN <<>>
    ELSE (IF Keep(k) THEN <<s[k]>> ELSE <<>>) \o SelectIdx(s, Keep, k + 1)

(* the wallets of S in string order *)
SortedWallets(S) == SelectIdx(WalletOrder, LAMBDA i : WalletOrder[i] \in S, 1)

RECURSIVE SortInts(_)
SortInts(s) ==
    IF s = <<>> THEN <<>>
    ELSE LET i == CHOOSE j \in 1..Len(s) : \A k \in 1..Len(s) : s[j] <= s[k]
         IN <<s[i]>> \o SortInts(SelectIdx(s, LAMBDA k : k # i, 1))

Abs(n) == IF n < 0 THEN -n ELSE n

RECURSIVE GCD(_, _)
GCD(a, b) == IF b = 0 THEN a ELSE GCD(b, a % b)

MaxOf(S) == CHOOSE x \in S : \A y \in S : y <= x
MinOf(S) == CHOOSE x \in S : \A y \in S : x <= y

(* the cell num/den in lowest terms; den > 0 *)
Frac(n, d) ==
    LET g == GCD(Abs(n), d)
    IN [num |-> n \div g, den |-> d \div g, eps |-> 0, root |-> 0]

Num(n) == [num |-> n, den |-> 1, eps |-> 0, root |-> 0]

Zero == Num(0)

(* the integer square root of n when n is a perfect square, else -1 *)
ISqrt(n) == IF \E r \in 0..n : r * r = n THEN CHOOSE r \in 0..n : r * r = n ELSE -1

(* the cell sqrt(n/d), d > 0, n >= 0 *)
SqrtFrac(n, d) ==
    LET f == Frac(n, d)
    IN IF ISqrt(f.num) >= 0 /\ ISqrt(f.den) >= 0
       THEN Frac(ISqrt(f.num), ISqrt(f.den))
       ELSE [f EXCEPT !.root = 1]

(* the cell n / (d + 1e-9), n >= 0, d >= 0 *)
EpsRatio(n, d) == IF n = 0 THEN Zero ELSE [num |-> n, den |-> d, eps |-> 1, root |-> 0]

-----------------------------------------------------------------------------
(* Transactions *)

AmountAbsent == [tag |-> "absent", val |-> 0]      \* no 'amount' key in actionData
AmountBad == [tag |-> "bad", val |-> 0]            \* a value pd.to_numeric cannot parse
AmountNum(n) == [tag |-> "num", val |-> n]

(* the cell of column `label` in row r of a frame with the column labels ls *)
IdCell(ls, r, label) == r.ids[IndexOf(ls, label)]

(* l.32-33: pd.to_datetime(unit='ms') and .dt.date, a day number *)
date(r) == r.timestamp \div MsPerDay

(* l.37-39, 46-48: the amount of actionData, 0 when absent or unparsable *)
amount_numeric(r) == IF r.actionData.amount.tag = "num" THEN r.actionData.amount.val ELSE 0

(* l.40-42 *)
token_extracted(r) ==
    IF r.actionData.assetSymbol = "absent" THEN "UNKNOWN" ELSE r.actionData.assetSymbol

(* l.15-28: the frame after the renaming at the head of engineer_wallet_features *)
rename_wallet_column(df) ==
    IF Has(df.labels, "userWallet")
    THEN [df EXCEPT !.labels = [i \in 1..Len(df.labels) |->
                IF df.labels[i] = "userWallet" THEN "walletaddress" ELSE df.labels[i]]]
    ELSE IF ~Has(df.labels, "walletaddress") /\ Has(df.labels, "from")
    THEN [labels |-> Append(df.labels, "walletaddress"),
          rows |-> [i \in 1..Len(df.rows) |->
                [df.rows[i] EXCEPT !.ids = Append(@, IdCell(df.labels, df.rows[i], "from"))]]]
    ELSE df

-----------------------------------------------------------------------------
(* Wallet Feature Aggregator: engineer_wallet_features *)

(* the rows of the frame whose 'walletaddress' cell is w, in frame order *)
Group(df, w) ==
    SelectIdx(df.rows, LAMBDA i : IdCell(df.labels, df.rows[i], "walletaddress") = w, 1)

(* a faulty variant: groupby that keeps the first row's wallet only *)
GroupKeys_first_only(df) ==
    <<IdCell(df.labels, df.rows[1], "walletaddress")>>

(* the group keys of groupby('walletaddress'), sorted *)
GroupKeys(df) ==
    SortedWallets({IdCell(df.labels, df.rows[i], "walletaddress") : i \in 1..Len(df.rows)})

(* In the operators below g is the group of one wallet, Group(df, w). *)

(* l.57 *)
total_transactions(g) == Len(g)

(* l.58 *)
active_days(g) == Cardinality({date(r) : r \in Range(g)})

(* l.59 *)
duration_days(g) ==
    LET dates == {date(r) : r \in Range(g)}
    IN IF Cardinality(dates) > 1 THEN (MaxOf(dates) - MinOf(dates)) + 1 ELSE 1

(* l.61 *)
last_transaction_date(g) == MaxOf({r.timestamp : r \in Range(g)})

(* l.62 *)
unique_tokens_interacted(g) == Cardinality({token_extracted(r) : r \in Range(g)})

(* l.66-67: total/duration, an infinite quotient replaced by 0 *)
transactions_per_day(g) ==
    IF duration_days(g) = 0 THEN Zero
    ELSE Frac(total_transactions(g), duration_days(g))

(* l.70-75: the mean gap between consecutive timestamps, in hours *)
calculate_avg_time_between_tx(timestamps) ==
    IF Len(timestamps) > 1
    THEN LET sorted == SortInts(timestamps)
             time_diffs == [i \in 1..(Len(sorted) - 1) |-> sorted[i + 1] - sorted[i]]
         IN Frac(SumSeq(time_diffs), Len(time_diffs) * MsPerHour)
    ELSE Zero

(* l.77-78 *)
avg_time_between_tx_hours(g) ==
    calculate_avg_time_between_tx([i \in 1..Len(g) |-> g[i].timestamp])

(* l.83: the latest timestamp of the whole frame *)
latest_overall_transaction(df) == MaxOf({r.timestamp : r \in Range(df.rows)})

(* l.84: whole days between the frame's latest and the wallet's latest *)
last_transaction_recency_days(df, g) ==
    (latest_overall_transaction(df) - last_transaction_date(g)) \div MsPerDay

(* l.87-95: the columns of action_pivot, <<aggfunc, action>> for the actions
   that occur anywhere in the frame *)
action_pivot_columns(df) ==
    {<<f, r.action>> : f \in {"sum", "count"}, r \in Range(df.rows)}

(* a faulty variant: the sums and counts are taken over the whole frame *)
action_pivot_of_frame(df, g, col) ==
    LET mine == SelectIdx(df.rows, LAMBDA i : df.rows[i].action = col[2], 1)
    IN IF col[1] = "sum"
       THEN SumSeq([i \in 1..Len(mine) |-> amount_numeric(mine[i])])
       ELSE Len(mine)

(* l.87-92: a cell of action_pivot; fillna(0) where the wallet has no such row *)
action_pivot(df, g, col) ==
    LET mine == SelectIdx(g, LAMBDA i : g[i].action = col[2], 1)
    IN IF col[1] = "sum"
       THEN SumSeq([i \in 1..Len(mine) |-> amount_numeric(mine[i])])
       ELSE Len(mine)

(* l.98-109 *)
financial_cols ==
    << [old |-> <<"sum", "deposit">>,            new |-> "total_deposit_amount"],
       [old |-> <<"sum", "borrow">>,             new |-> "total_borrow_amount"],
       [old |-> <<"sum", "repay">>,              new |-> "total_repay_amount"],
       [old |-> <<"sum", "redeemunderlying">>,   new |-> "total_redeem_amount"],
       [old |-> <<"sum", "liquidationcall">>,    new |-> "total_liquidation_call_amount"],
       [old |-> <<"count", "deposit">>,          new |-> "count_deposit"],
       [old |-> <<"count", "borrow">>,           new |-> "count_borrow"],
       [old |-> <<"count", "repay">>,            new |-> "count_repay"],
       [old |-> <<"count", "redeemunderlying">>, new |-> "count_redeemunderlying"],
       [old |-> <<"count", "liquidationcall">>,  new |-> "count_liquidationcall"] >>

(* l.111-115: the financial column new_col of the wallet *)
financial(df, g, new_col) ==
    LET e == financial_cols[CHOOSE i \in 1..Len(financial_cols) :
                                financial_cols[i].new = new_col]
    IN IF e.old \in action_pivot_columns(df) THEN action_pivot(df, g, e.old) ELSE 0

(* l.119-122: np.where(count > 0, total / count, 0) *)
avg_amount(df, g, total_col, count_col) ==
    IF financial(df, g, count_col) > 0
    THEN Frac(financial(df, g, total_col), financial(df, g, count_col))
    ELSE Zero

(* l.142-143: the sample standard deviation (ddof = 1) of a list of amounts *)
safe_std(series) ==
    IF Len(series) > 1
    THEN LET n == Len(series)
             sq == [i \in 1..n |-> series[i] * series[i]]
         IN SqrtFrac(n * SumSeq(sq) - SumSeq(series) * SumSeq(series), n * (n - 1))
    ELSE Zero

(* l.145-150: std_<col>_amount of the wallet; 0 where the wallet or the whole
   frame has no row of the action *)
std_amount(g, col) ==
    LET mine == SelectIdx(g, LAMBDA i : g[i].action = col, 1)
    IN IF mine = <<>> THEN Zero
       ELSE safe_std([i \in 1..Len(mine) |-> amount_numeric(mine[i])])

(* the columns of the returned table, in the order the code adds them
   (first_transaction_date and last_transaction_date are dropped at l.153) *)
FeatureColumns ==
    << "total_transactions", "active_days", "duration_days",
       "unique_tokens_interacted", "transactions_per_day",
       "avg_time_between_tx_hours", "last_transaction_recency_days",
       "total_deposit_amount", "total_borrow_amount", "total_repay_amount",
       "total_redeem_amount", "total_liquidation_call_amount",
       "count_deposit", "count_borrow", "count_repay",
       "count_redeemunderlying", "count_liquidationcall",
       "avg_deposit_amount", "avg_borrow_amount", "avg_repay_amount",
       "avg_redeem_amount",
       "borrow_to_deposit_ratio", "repay_to_borrow_ratio",
       "redeem_to_deposit_ratio", "net_borrow_repay",
       "std_deposit_amount", "std_borrow_amount", "std_repay_amount" >>

(* the cell of column c for the wallet with group g *)
FeatureCell(df, g, c) ==
    CASE c = "total_transactions" -> Num(total_transactions(g))
      [] c = "active_days" -> Num(active_days(g))
      [] c = "duration_days" -> Num(duration_days(g))
      [] c = "unique_tokens_interacted" -> Num(unique_tokens_interacted(g))
      [] c = "transactions_per_day" -> transactions_per_day(g)
      [] c = "avg_time_between_tx_hours" -> avg_time_between_tx_hours(g)
      [] c = "last_transaction_recency_days" -> Num(last_transaction_recency_days(df, g))
      [] c = "avg_deposit_amount" ->
            avg_amount(df, g, "total_deposit_amount", "count_deposit")
      [] c = "avg_borrow_amount" ->
            avg_amount(df, g, "total_borrow_amount", "count_borrow")
      [] c = "avg_repay_amount" ->
            avg_amount(df, g, "total_repay_amount", "count_repay")
      [] c = "avg_redeem_amount" ->
            avg_amount(df, g, "total_redeem_amount", "count_redeemunderlying")
      \* l.132-136
      [] c = "borrow_to_deposit_ratio" ->
            EpsRatio(financial(df, g, "total_borrow_amount"),
                     financial(df, g, "total_deposit_amount"))
      [] c = "repay_to_borrow_ratio" ->
            EpsRatio(financial(df, g, "total_repay_amount"),
                     financial(df, g, "total_borrow_amount"))
      [] c = "redeem_to_deposit_ratio" ->
            EpsRatio(financial(df, g, "total_redeem_amount"),
                     financial(df, g, "total_deposit_amount"))
      \* l.139
      [] c = "net_borrow_repay" ->
            Num(financial(df, g, "total_borrow_amount")
                  - financial(df, g, "total_repay_amount"))
      [] c = "std_deposit_amount" -> std_amount(g, "deposit")
      [] c = "std_borrow_amount" -> std_amount(g, "borrow")
      [] c = "std_repay_amount" -> std_amount(g, "repay")
      \* l.111-115: the ten columns of financial_cols
      [] OTHER -> Num(financial(df, g, c))

EmptyTable == [index |-> <<>>, columns |-> <<>>, data |-> <<>>]

(* l.56-160: the table wallet_features of a frame with one 'walletaddress'
   column; data[k] is the row of wallet index[k] *)
wallet_features(df) ==
    LET keys == GroupKeys(df)
    IN [index |-> keys,
        columns |-> FeatureColumns,
        data |-> [k \in 1..Len(keys) |->
                    LET g == Group(df, keys[k])
                    IN [j \in 1..Len(FeatureColumns) |->
                            FeatureCell(df, g, FeatureColumns[j])]]]

NotCalled == [kind |-> "none", error |-> "", table |-> EmptyTable]
Raised(e) == [kind |-> "raise", error |-> e, table |-> EmptyTable]
Returned(t) == [kind |-> "return", error |-> "", table |-> t]

(* l.13-160: what engineer_wallet_features returns or raises on the frame.
   l.52-54 raises KeyError without a 'walletaddress' column; with two columns
   of that label (l.16 renamed 'userWallet' beside an existing
   'walletaddress') groupby('walletaddress') at l.56 raises ValueError. *)
engineer_wallet_features(transactions_df) ==
    LET df == rename_wallet_column(transactions_df)
    IN IF ~Has(df.labels, "walletaddress") THEN Raised("KeyError")
       ELSE IF Occurrences(df.labels, "walletaddress") > 1 THEN Raised("ValueError")
       ELSE Returned(wallet_features(df))

-----------------------------------------------------------------------------
(* Scoring: generate_wallet_scores_from_json *)

ArtifactNames ==
    {"scaler.pkl", "pca.pkl", "kmeans_model.pkl", "cluster_score_mapping.pkl",
     "trained_feature_columns.pkl"}

ClusterIds == 0..MaxCluster

EmptyScores == [w \in {} |-> 0]

NoResult == [kind |-> "none", error |-> "", scores |-> EmptyScores]
ReturnScores(sc) == [kind |-> "return", error |-> "", scores |-> sc]
RaiseError(e) == [kind |-> "raise", error |-> e, scores |-> EmptyScores]

(* l.193-202: the frame with a 'walletaddress' column, or no frame *)
resolve_wallet_column(df) ==
    IF ~Has(df.labels, "walletaddress")
    THEN IF Has(df.labels, "userWallet")
         THEN [ok |-> TRUE,
               df |-> [df EXCEPT !.labels = [i \in 1..Len(df.labels) |->
                        IF df.labels[i] = "userWallet" THEN "walletaddress"
                        ELSE df.labels[i]]]]
         ELSE IF Has(df.labels, "from")
         THEN [ok |-> TRUE,
               df |-> [labels |-> Append(df.labels, "walletaddress"),
                       rows |-> [i \in 1..Len(df.rows) |->
                            [df.rows[i] EXCEPT
                                !.ids = Append(@, IdCell(df.labels, df.rows[i], "from"))]]]]
         ELSE [ok |-> FALSE, df |-> df]
    ELSE [ok |-> TRUE, df |-> df]

(* l.206-219: whether the five joblib.load calls all succeed *)
models_loaded(art) == art.load_error = "none"

(* a faulty variant: the load error is re-raised *)
on_load_failure_raise(art) == RaiseError(art.load_error)

(* l.213-219: what the call does when a joblib.load raises *)
on_load_failure(art) == ReturnScores(EmptyScores)

(* the cell of column c in row k of table t *)
Cell(t, k, c) == t.data[k][IndexOf(t.columns, c)]

(* l.232-234: a column of 0.0 for every trained column the table lacks *)
add_missing_columns(t, trained) ==
    LET missing == SelectIdx(trained,
                     LAMBDA j : ~Has(t.columns, trained[j])
                                /\ \A i \in 1..(j - 1) : trained[i] # trained[j], 1)
    IN [t EXCEPT !.columns = @ \o missing,
                 !.data = [k \in 1..Len(t.index) |->
                             t.data[k] \o [j \in 1..Len(missing) |-> Zero]]]

(* l.236-239: the columns the trained list does not name are dropped *)
drop_extra_columns(t, trained) ==
    LET keep(j) == Has(trained, t.columns[j])
    IN [t EXCEPT !.columns = SelectIdx(t.columns, keep, 1),
                 !.data = [k \in 1..Len(t.index) |-> SelectIdx(t.data[k], keep, 1)]]

(* a faulty variant: the final selection in trained order is left out *)
select_columns_skipped(t, trained) == t

(* l.242: wallet_features_input_df[trained_feature_columns] *)
select_columns(t, trained) ==
    [t EXCEPT !.columns = trained,
              !.data = [k \in 1..Len(t.index) |->
                          [j \in 1..Len(trained) |-> Cell(t, k, trained[j])]]]

(* l.231-245 *)
align_features(t, trained) ==
    select_columns(drop_extra_columns(add_missing_columns(t, trained), trained), trained)

(* a faulty variant: only the rows are tested, not shape[1] *)
no_features_rows_only(t) == Len(t.index) = 0

(* l.249: wallet_features_input_df.empty or shape[1] == 0 *)
no_features(t) == Len(t.index) = 0 \/ Len(t.columns) = 0

(* a faulty variant: the neutral scores are given to the first wallet only *)
neutral_scores_first_only(t) == [w \in {t.index[1]} |-> NeutralScore]

(* l.260, 275: every wallet of the index at the neutral score *)
neutral_scores(t) == [w \in Range(t.index) |-> NeutralScore]

(* a faulty variant: the half is always dropped *)
round_half_down(s) == s \div 2

(* Python 3's round() of s/2 for an integer s: halves go to the even side *)
round_half(s) ==
    IF s % 2 = 0 THEN s \div 2
    ELSE LET q == (s - 1) \div 2 IN IF q % 2 = 0 THEN q ELSE q + 1

(* l.285-290: the score of a wallet assigned cluster_id *)
score_of(cluster_score_mapping, cluster_id) ==
    IF cluster_id \in DOMAIN cluster_score_mapping
    THEN round_half(cluster_score_mapping[cluster_id].min
                    + cluster_score_mapping[cluster_id].max)
    ELSE NeutralScore

(* l.282-290 *)
assign_scores(t, cluster_labels_input, cluster_score_mapping) ==
    [w \in Range(t.index) |->
        score_of(cluster_score_mapping, cluster_labels_input[IndexOf(t.index, w)])]

-----------------------------------------------------------------------------
(* Inputs *)

(* the identity columns a batch may carry: any of the three, in JSON order *)
LabelChoices ==
    {SelectIdx(IdentityLabels, LAMBDA i : IdentityLabels[i] \in S, 1) :
        S \in SUBSET Range(IdentityLabels)}

Row(ids, ts, a, amt, tok) ==
    [ids |-> ids, timestamp |-> ts, action |-> a,
     actionData |-> [amount |-> amt, assetSymbol |-> tok]]

(* transaction payloads of the scoring runs *)
ScoringPayloads ==
    {<<ts, "deposit", AmountNum(1), "USDC">> : ts \in {0, MsPerDay}}

(* transaction payloads of the aggregator runs: deposits of 1 at varying
   times, one without asset symbol, every action with amount 1, and deposits,
   borrows and repays of larger, absent or unparsable amounts *)
AggregatorPayloads ==
    {<<ts, "deposit", AmountNum(1), "USDC">> : ts \in {0, MsPerHour, 2 * MsPerDay}}
    \cup {<<0, "deposit", AmountNum(1), "absent">>}
    \cup {<<0, a, AmountNum(1), "USDC">> : a \in Actions}
    \cup {<<0, a, AmountNum(n), "USDC">> :
            a \in {"deposit", "borrow", "repay"}, n \in 2..MaxAmount}
    \cup {<<0, "deposit", amt, "USDC">> : amt \in {AmountAbsent, AmountBad}}

Rows(labels, payloads) ==
    {Row(ids, p[1], p[2], p[3], p[4]) :
        ids \in [1..Len(labels) -> Wallets], p \in payloads}

(* the batches of 1..MaxTx rows; the empty batch has no columns at all *)
Batches(labels, payloads) ==
    UNION {[1..n -> Rows(labels, payloads)] : n \in 1..MaxTx}
    \cup (IF labels = <<>> THEN {<<>>} ELSE {})

ScoreRange(lo, hi) == [min |-> lo, max |-> hi]

MappingChoices ==
    { (0 :> ScoreRange(300, 500)) @@ (1 :> ScoreRange(600, 800)),
      (0 :> ScoreRange(301, 500)) @@ (MaxCluster :> ScoreRange(303, 500)) }

TrainedColumnChoices ==
    { <<>>,
      FeatureColumns,
      <<"net_borrow_repay", "count_flashloan", "total_transactions">> }

NotLoaded(name, err) ==
    [load_error |-> err, failed |-> name, n_components |-> 0, kmeans_model |-> "None",
     cluster_score_mapping |-> <<>>, trained_feature_columns |-> <<>>]

(* the models directory: one artifact fails to load, or all five load *)
ArtifactChoices ==
    {NotLoaded(name, err) :
        name \in ArtifactNames, err \in {"FileNotFoundError", "Exception"}}
    \cup
    {[load_error |-> "none", failed |-> "", n_components |-> n, kmeans_model |-> k,
      cluster_score_mapping |-> m, trained_feature_columns |-> c] :
        n \in 0..2, k \in {"None", "KMeans"}, m \in MappingChoices,
        c \in TrainedColumnChoices}

-----------------------------------------------------------------------------
(* The scoring run: one call of generate_wallet_scores_from_json *)

Init ==
    /\ inputOk \in BOOLEAN
    /\ columns \in LabelChoices
    /\ batch \in IF inputOk THEN Batches(columns, ScoringPayloads) ELSE {<<>>}
    /\ inputOk \/ columns = <<>>
    /\ artifacts \in ArtifactChoices
    /\ pc = "start"
    /\ stage = "start"
    /\ features = NotCalled
    /\ aligned = EmptyTable
    /\ cluster_labels = <<>>
    /\ result = NoResult

Frame == [labels |-> columns, rows |-> batch]

Finish(st, f, t, labels, r) ==
    /\ stage' = st
    /\ features' = f
    /\ aligned' = t
    /\ cluster_labels' = labels
    /\ result' = r

(* l.164-293: one call of generate_wallet_scores_from_json, from the loading
   of the input to the return or the raise.  (The test of l.269 cannot
   succeed: the aligned table has a row per wallet.) *)
Generate ==
    /\ pc = "start"
    /\ pc' = "done"
    /\ UNCHANGED <<inputOk, columns, batch, artifacts>>
    /\ IF ~inputOk                                                   \* l.178-184
       THEN Finish("json_error", NotCalled, EmptyTable, <<>>, ReturnScores(EmptyScores))
       ELSE IF batch = <<>>                                          \* l.186-188
       THEN Finish("empty_input", NotCalled, EmptyTable, <<>>, ReturnScores(EmptyScores))
       ELSE \E res \in {resolve_wallet_column(Frame)} :              \* l.193-202
       IF ~res.ok
       THEN Finish("no_wallet_column", NotCalled, EmptyTable, <<>>, RaiseError("KeyError"))
       ELSE IF ~models_loaded(artifacts)                             \* l.206-219
       THEN Finish("load_failure", NotCalled, EmptyTable, <<>>, on_load_failure(artifacts))
       ELSE \E f \in {engineer_wallet_features(res.df)} :            \* l.225
       IF f.kind = "raise"
       THEN Finish("engineer_raised", f, EmptyTable, <<>>, RaiseError(f.error))
       ELSE IF f.table.index = <<>>                                  \* l.227-229
       THEN Finish("empty_features", f, EmptyTable, <<>>, ReturnScores(EmptyScores))
       ELSE \E t \in {align_features(f.table, artifacts.trained_feature_columns)} :
       IF no_features(t)                                             \* l.249-251
       THEN Finish("no_features", f, t, <<>>, ReturnScores(EmptyScores))
       ELSE IF artifacts.n_components = 0                            \* l.258-261
       THEN Finish("pca_zero", f, t, <<>>, ReturnScores(neutral_scores(t)))
       ELSE IF artifacts.kmeans_model = "None"                       \* l.273-276
       THEN Finish("no_kmeans", f, t, <<>>, ReturnScores(neutral_scores(t)))
       ELSE \E cluster_labels_input \in [1..Len(t.index) -> ClusterIds] :  \* l.278
            Finish("scored", f, t, cluster_labels_input,                                 \* l.282-293
                   ReturnScores(assign_scores(t, cluster_labels_input,
                                              artifacts.cluster_score_mapping)))

Next == Generate

Spec == Init /\ [][Next]_vars

-----------------------------------------------------------------------------
(* The aggregator run: one call of engineer_wallet_features on a frame *)

InitAgg ==
    /\ inputOk = TRUE
    /\ columns \in {<<"walletaddress">>}
    /\ batch \in Batches(columns, AggregatorPayloads)
    /\ artifacts = NotLoaded("scaler.pkl", "FileNotFoundError")
    /\ pc = "start"
    /\ stage = "start"
    /\ features = NotCalled
    /\ aligned = EmptyTable
    /\ cluster_labels = <<>>
    /\ result = NoResult

Engineer ==
    /\ pc = "start"
    /\ features' = engineer_wallet_features(Frame)
    /\ stage' = "engineered"
    /\ pc' = "done"
    /\ UNCHANGED <<inputOk, columns, batch, artifacts, aligned, cluster_labels, result>>

NextAgg == Engineer

SpecAgg == InitAgg /\ [][NextAgg]_vars

-----------------------------------------------------------------------------
(* What the claims speak of, stated on the raw input *)

(* the identity column the resolution order designates, "" when there is none *)
CanonicalLabel ==
    IF Has(columns, "walletaddress") THEN "walletaddress"
    ELSE IF Has(columns, "userWallet") THEN "userWallet"
    ELSE IF Has(columns, "from") THEN "from"
    ELSE ""

(* the distinct wallet identifiers of the batch *)
InputWallets ==
    IF CanonicalLabel = "" THEN {}
    ELSE {IdCell(columns, batch[i], CanonicalLabel) : i \in 1..Len(batch)}

NoDuplicates(s) == \A i, j \in 1..Len(s) : s[i] = s[j] => i = j

(* the call went as far as aligning the feature table *)
Aligned == stage \in {"no_features", "pca_zero", "no_kmeans", "scored"}

AllNeutral(ws) == [w \in ws |-> NeutralScore]

-----------------------------------------------------------------------------
(* C1, as claimed: after the call, every distinct wallet of the input is
   exactly once in the feature table and exactly once in the returned score
   mapping, on every path through the pipeline. *)
C1_EveryWalletScored ==
    (pc = "done" /\ InputWallets # {}) =>
        /\ features.kind = "return"
        /\ Range(features.table.index) = InputWallets
        /\ NoDuplicates(features.table.index)
        /\ result.kind = "return"
        /\ DOMAIN result.scores = InputWallets

(* C1, amended: whenever engineer_wallet_features returns a table, every
   distinct wallet of the input is exactly once in its index; whenever the
   call returns a non-empty score mapping, its keys are exactly the distinct
   wallets of the input.  (On the other paths no wallet is scored.) *)
C1_WalletsKeptWhenScored ==
    pc = "done" =>
        /\ features.kind = "return" =>
              /\ Range(features.table.index) = InputWallets
              /\ NoDuplicates(features.table.index)
              /\ Len(features.table.data) = Len(features.table.index)
        /\ (result.kind = "return" /\ result.scores # EmptyScores) =>
              DOMAIN result.scores = InputWallets

C1_Witness ==
    /\ pc = "done"
    /\ stage = "scored"
    /\ CanonicalLabel = "from"
    /\ Len(batch) = MaxTx
    /\ Cardinality(InputWallets) = 2
    /\ DOMAIN result.scores = InputWallets

(* C2, as claimed: the wallet column is resolved in the order walletaddress,
   userWallet, from; with any of them present the call does not raise and the
   wallets are those of the first present one; with none it raises the schema
   error. *)
C2_ResolutionOrder ==
    (pc = "done" /\ inputOk /\ batch # <<>> /\ models_loaded(artifacts)) =>
        IF CanonicalLabel = ""
        THEN result.kind = "raise" /\ result.error = "KeyError"
        ELSE /\ result.kind = "return"
             /\ features.kind = "return"
             /\ Range(features.table.index) = InputWallets

(* C3: in the final scoring step every wallet's score is round((min+max)/2)
   of its cluster's entry (Python's round: a half goes to the even integer),
   or 500 when its cluster has no entry, whatever the other wallets' clusters
   are; with {0:{300,500}, 1:{600,800}} cluster 1 gives 700 and cluster 2
   gives 500. *)
C3_ScoreFromCluster ==
    (pc = "done" /\ stage = "scored") =>
        /\ result.kind = "return"
        /\ DOMAIN result.scores = Range(aligned.index)
        /\ \A k \in 1..Len(aligned.index) :
            LET cid == cluster_labels[k]
                sc == result.scores[aligned.index[k]]
                m == artifacts.cluster_score_mapping
            IN IF cid \in DOMAIN m
               THEN /\ 2 * sc - (m[cid].min + m[cid].max) \in {-1, 0, 1}
                    /\ (m[cid].min + m[cid].max) % 2 = 1 => sc % 2 = 0
                    /\ (m[cid] = ScoreRange(600, 800)) => sc = 700
               ELSE sc = 500

C3_Witness ==
    /\ pc = "done"
    /\ stage = "scored"
    /\ Len(aligned.index) = 2
    /\ artifacts.cluster_score_mapping[0] = ScoreRange(300, 500)
    /\ cluster_labels = <<1, 2>>
    /\ result.scores[aligned.index[1]] = 700
    /\ result.scores[aligned.index[2]] = 500

(* C4, as claimed: when the PCA artifact retains zero components or the
   cluster model is None, the returned mapping holds every wallet of the
   aligned input at score 500. *)
C4_NeutralWhenNoModel ==
    (pc = "done" /\ Aligned
        /\ (artifacts.n_components = 0 \/ artifacts.kmeans_model = "None")) =>
        /\ result.kind = "return"
        /\ result.scores = AllNeutral(Range(aligned.index))

(* C4, amended: when the trained column list is not empty and the PCA
   artifact retains zero components or the cluster model is None, prediction
   is bypassed and the returned mapping holds every wallet of the aligned
   input at score 500. *)
C4_NeutralWhenNoModelAndColumns ==
    (pc = "done" /\ Aligned
        /\ artifacts.trained_feature_columns # <<>>
        /\ (artifacts.n_components = 0 \/ artifacts.kmeans_model = "None")) =>
        /\ result.kind = "return"
        /\ result.scores = AllNeutral(Range(aligned.index))
        /\ Range(aligned.index) = InputWallets
        /\ cluster_labels = <<>>

C4_Witness ==
    /\ pc = "done"
    /\ stage = "no_kmeans"
    /\ artifacts.n_components = 1
    /\ artifacts.kmeans_model = "None"
    /\ Cardinality(InputWallets) = 2
    /\ result.scores = AllNeutral(InputWallets)

(* C5: aligning the feature table against the trained column list gives a
   table whose columns are the trained list in its order, for every wallet:
   a trained column the aggregator lacks is 0.0 everywhere, an aggregator
   column the list does not name is gone, the other cells are unchanged. *)
C5_AlignedToTrainedColumns ==
    (pc = "done" /\ Aligned) =>
        LET trained == artifacts.trained_feature_columns
            ft == features.table
        IN /\ aligned.columns = trained
           /\ aligned.index = ft.index
           /\ Len(aligned.data) = Len(ft.index)
           /\ \A k \in 1..Len(ft.index) :
                /\ Len(aligned.data[k]) = Len(trained)
                /\ \A j \in 1..Len(trained) :
                     aligned.data[k][j] =
                        IF Has(ft.columns, trained[j])
                        THEN ft.data[k][IndexOf(ft.columns, trained[j])]
                        ELSE Zero

C5_Witness ==
    /\ pc = "done"
    /\ stage = "scored"
    /\ aligned.columns = <<"net_borrow_repay", "count_flashloan", "total_transactions">>
    /\ Len(aligned.index) = 2
    /\ aligned.data[1] = <<Zero, Zero, Num(1)>>
    /\ Len(features.table.columns) > Len(aligned.columns)

(* the call got as far as loading the artifacts, and one did not load *)
LoadFails ==
    inputOk /\ batch # <<>> /\ CanonicalLabel # "" /\ ~models_loaded(artifacts)

(* C6, as claimed: a failure to load any of the five artifacts propagates to
   the caller as an error, not as an ordinary result. *)
C6_LoadFailurePropagates ==
    (pc = "done" /\ LoadFails) => result.kind = "raise"

(* C6, amended: a failure to load any of the five artifacts is fatal to the
   invocation (no feature is engineered, no wallet is scored) and is reported
   as an ordinary result: the call returns the empty mapping and raises
   nothing, as it does for an empty batch. *)
C6_LoadFailureReturnsEmpty ==
    (pc = "done" /\ LoadFails) =>
        /\ result = ReturnScores(EmptyScores)
        /\ features = NotCalled

C6_Witness ==
    /\ pc = "done"
    /\ LoadFails
    /\ artifacts.failed = "pca.pkl"
    /\ artifacts.load_error = "FileNotFoundError"
    /\ result = ReturnScores(EmptyScores)

(* the aligned table has wallets and no feature column *)
EmptyFeatureSet == Aligned /\ aligned.index # <<>> /\ aligned.columns = <<>>

(* C7, as claimed: an empty batch gives the empty mapping and no exception;
   an aligned table with wallets and no feature column gives every wallet
   of the batch the score 500. *)
C7_EmptyFeatureSetIsNeutral ==
    pc = "done" =>
        /\ (inputOk /\ batch = <<>>) => result = ReturnScores(EmptyScores)
        /\ EmptyFeatureSet =>
              /\ result.kind = "return"
              /\ result.scores = AllNeutral(InputWallets)

(* C7, amended: an empty batch gives the empty mapping and no exception,
   whatever the artifacts are; an aligned table with wallets and no feature
   column gives the empty mapping too, and no exception. *)
C7_EmptyFeatureSetIsEmpty ==
    pc = "done" =>
        /\ (inputOk /\ batch = <<>>) => result = ReturnScores(EmptyScores)
        /\ EmptyFeatureSet => result = ReturnScores(EmptyScores)

C7_Witness ==
    /\ pc = "done"
    /\ EmptyFeatureSet
    /\ Cardinality(InputWallets) = 2
    /\ artifacts.n_components = 0
    /\ result = ReturnScores(EmptyScores)

(* C8, as claimed: the call returns the empty mapping when any step fails
   and never raises an exception to the caller. *)
C8_NeverRaises ==
    pc = "done" => result.kind = "return"

-----------------------------------------------------------------------------
(* The aggregator's claims, stated on the raw batch *)

TotalColumn(a) ==
    CASE a = "deposit" -> "total_deposit_amount"
      [] a = "borrow" -> "total_borrow_amount"
      [] a = "repay" -> "total_repay_amount"
      [] a = "redeemunderlying" -> "total_redeem_amount"
      [] a = "liquidationcall" -> "total_liquidation_call_amount"

CountColumn(a) ==
    CASE a = "deposit" -> "count_deposit"
      [] a = "borrow" -> "count_borrow"
      [] a = "repay" -> "count_repay"
      [] a = "redeemunderlying" -> "count_redeemunderlying"
      [] a = "liquidationcall" -> "count_liquidationcall"

AvgColumn(a) ==
    CASE a = "deposit" -> "avg_deposit_amount"
      [] a = "borrow" -> "avg_borrow_amount"
      [] a = "repay" -> "avg_repay_amount"
      [] a = "redeemunderlying" -> "avg_redeem_amount"
      [] a = "liquidationcall" -> "avg_liquidation_call_amount"

(* the rows of the batch that are wallet w's, in batch order *)
RowsOf(w) ==
    SelectIdx(batch, LAMBDA i : IdCell(columns, batch[i], CanonicalLabel) = w, 1)

Reverse(s) == [i \in 1..Len(s) |-> s[Len(s) + 1 - i]]

(* the parsable amounts of wallet w's transactions of action a *)
AmountsOf(w, a) ==
    LET mine == SelectIdx(RowsOf(w), LAMBDA i : RowsOf(w)[i].action = a, 1)
    IN [i \in 1..Len(mine) |->
            IF mine[i].actionData.amount.tag = "num"
            THEN mine[i].actionData.amount.val ELSE 0]

(* the columns of action a in row k of the feature table are as claimed *)
ActionColumnsRight(a) ==
    LET ft == features.table
    IN /\ Has(ft.columns, TotalColumn(a))
       /\ Has(ft.columns, CountColumn(a))
       /\ Has(ft.columns, AvgColumn(a))
       /\ \A k \in 1..Len(ft.index) :
            LET amounts == AmountsOf(ft.index[k], a)
            IN /\ Cell(ft, k, TotalColumn(a)) = Num(SumSeq(amounts))
               /\ Cell(ft, k, CountColumn(a)) = Num(Len(amounts))
               /\ Cell(ft, k, AvgColumn(a)) =
                    IF Len(amounts) > 0 THEN Frac(SumSeq(amounts), Len(amounts))
                    ELSE Zero

(* C9, as claimed: for every wallet of a non-empty batch the table has, for
   each of deposit, borrow, repay, redeemunderlying and liquidationcall, a
   total column (the sum of the wallet's amounts), a count column (the number
   of its transactions) and an average column (total/count, 0 without any);
   the columns are the same for every batch. *)
C9_ColumnsOfEveryAction ==
    (pc = "done" /\ features.kind = "return") =>
        /\ features.table.columns = FeatureColumns
        /\ \A i \in 1..Len(TrackedActions) : ActionColumnsRight(TrackedActions[i])

(* the table engineer_wallet_features gives for the rows alone *)
TableOf(rows) == engineer_wallet_features([labels |-> columns, rows |-> rows]).table

LatestOf(rows) == MaxOf({rows[i].timestamp : i \in 1..Len(rows)})

(* C10: every feature of a wallet other than last_transaction_recency_days
   is what the aggregator gives for the wallet's transactions alone, in
   either order, whatever the other wallets' transactions are; the recency is
   the whole days from the wallet's latest timestamp to the batch's latest,
   is never negative and is 0 for the wallet holding the batch's latest. *)
C10_WalletsIndependent ==
    (pc = "done" /\ features.kind = "return") =>
        LET ft == features.table
        IN \A k \in 1..Len(ft.index) :
            LET mine == RowsOf(ft.index[k])
                alone == TableOf(mine)
                turned == TableOf(Reverse(mine))
                recency == Cell(ft, k, "last_transaction_recency_days")
            IN /\ alone.index = <<ft.index[k]>>
               /\ alone.columns = ft.columns
               /\ \A j \in 1..Len(ft.columns) :
                    ft.columns[j] # "last_transaction_recency_days" =>
                        /\ ft.data[k][j] = alone.data[1][j]
                        /\ ft.data[k][j] = turned.data[1][j]
               /\ recency = Num((LatestOf(batch) - LatestOf(mine)) \div MsPerDay)
               /\ recency.num >= 0
               /\ LatestOf(mine) = LatestOf(batch) => recency = Zero

C10_Witness ==
    /\ pc = "done"
    /\ features.kind = "return"
    /\ features.table.index = <<"0xA", "0xB">>
    /\ Len(batch) = MaxTx
    /\ Cell(features.table, 1, "last_transaction_recency_days") = Num(2)
    /\ Cell(features.table, 2, "last_transaction_recency_days") = Zero
    /\ Cell(features.table, 1, "count_deposit") = Num(1)

====
